---- MODULE Spec2Model ----
(***************************************************************************)
(* Key management and chunk synchronisation of the SeRVe client SDK.      *)
(*                                                                         *)
(* ServeClient (serve_sdk/client.py) composes a Session, the CryptoUtils   *)
(* and the ApiClient (serve_sdk/api_client.py).  Every user drives one     *)
(* ServeClient of its own, so a session is indexed by its user.  The       *)
(* server behind the ApiClient is the external collaborator of spec §6.    *)
(*                                                                         *)
(* Values: users, passwords, plaintexts are small positive integers; a     *)
(* symmetric key is a positive integer naming one random AES key; the key  *)
(* pair of user u is named u.  0 is "no value" / "operation failed".  A    *)
(* ciphertext is a record [tag, a, b]: payload a under key b.              *)
(*                                                                         *)
(* last records the most recent Facade call and what it returned; rot and  *)
(* wire are history variables.                                             *)
(***************************************************************************)
EXTENDS Integers, Sequences, FiniteSets, TLC

\* ------------------------------------------------------------ bounds ----
NUsers == 3
MaxTeams == 2
NFiles == 2
NIdx == 2
NPlain == 2
MaxWrites == 3
\* writes per team in the specifications about membership and documents
FewWrites == 2
\* entries of one chunk the vector store is counted up to
MaxCopies == 2

Users == 1..NUsers
Teams == 1..MaxTeams
Files == 1..NFiles
Idx == 0..(NIdx - 1)
Plain == 1..NPlain
Passwords == {1, 2}
\* the password users sign up with when passwords are not what is studied
SignupPasswords == {1}
\* the users that create (and so administer) teams
Admins == {1}
\* the lastVersion values sync_team_chunks is called with
SyncVersions == {-1, 0}
\* every key that can be persisted: one per team, one per document
MaxKeys == MaxTeams + MaxTeams * NFiles + 1

VARIABLES
    registered,   \* server: users that signed up
    srvPw,        \* server: current login password of a user
    srvEncPriv,   \* server: encryptedPrivateKey stored at signup
    nTeams,       \* server: number of teams created (team ids 1..nTeams)
    role,         \* server: role[t][u] in {"NONE", "ADMIN", "MEMBER"}
    grant,        \* server: grant[t][u] = encryptedTeamKey of a MEMBER row
    ownerBlob,    \* server: ownerWrappedTeamKey received by createTeam
    docs,         \* server: docs[t][f] = encryptedDEK of the document
    chunks,       \* server: chunks[t][f][i] = chunk row
    ver,          \* server: next version of team t
    nextKey,      \* the next fresh symmetric key
    session,      \* client: session[u] = [auth, priv]
    team_keys,    \* client: team_keys[u][t] = cached team key (0: none)
    rot,          \* history: the accepted kicks of team t
    wire,         \* history: every value ever passed to an ApiClient call
    edge,         \* edge server: the sync worker's watermark and last pass
    shared,       \* client: the session of a ServeClient several accounts use
    last          \* the last Facade call and what it returned

vars == <<registered, srvPw, srvEncPriv, nTeams, role, grant, ownerBlob,
          docs, chunks, ver, nextKey, session, team_keys, rot, wire, edge,
          shared, last>>

srvUsers == <<registered, srvPw, srvEncPriv>>
srvTeams == <<nTeams, role, grant, ownerBlob>>
srvData == <<docs, chunks, ver>>

\* ------------------------------------------------------ CryptoEngine ----
NoBlob == [tag |-> "none", a |-> 0, b |-> 0]

protectPrivateKey(priv, pw) == [tag |-> "encPriv", a |-> priv, b |-> pw]
recoverPrivateKey(blob, pw) ==
    IF blob.tag = "encPriv" /\ blob.b = pw THEN blob.a ELSE 0

wrapKey(k, pub) == [tag |-> "wrap", a |-> k, b |-> pub]
unwrapKey(blob, priv) ==
    IF blob.tag = "wrap" /\ priv # 0 /\ blob.b = priv THEN blob.a ELSE 0

wrapKeyWithKey(d, k) == [tag |-> "kw", a |-> d, b |-> k]
unwrapKeyWithKey(blob, k) ==
    IF blob.tag = "kw" /\ k # 0 /\ blob.b = k THEN blob.a ELSE 0

encrypt(p, k) == [tag |-> "ct", a |-> p, b |-> k]
decrypt(blob, k) ==
    IF blob.tag = "ct" /\ k # 0 /\ blob.b = k THEN blob.a ELSE 0

PwTerm(pw) == [tag |-> "pw", a |-> pw, b |-> 0]

\* ----------------------------------------------------------- Session ----
NoSession == [auth |-> FALSE, priv |-> 0]
NoKeys == [t \in Teams |-> 0]

is_authenticated(u) == session[u].auth

\* the identity fields of a Session, all of them: a ServeClient that is not
\* bound to one account (app.py keeps one per browser session and shows
\* its login form whenever is_logged_in is off)
NoIdentity == [access_token |-> 0, user_id |-> 0, email |-> 0,
               private_key |-> 0, public_key |-> 0]
set_user_credentials(s, u) ==
    [s EXCEPT !.access_token = u, !.user_id = u, !.email = u]
set_key_pair(s, private_key, public_key) ==
    [s EXCEPT !.private_key = private_key, !.public_key = public_key]
get_cached_team_key(u, t) == team_keys[u][t]

\* ------------------------------------------------------------ result ----
NoLast == [op |-> "none", u |-> 0, t |-> 0, f |-> 0, ok |-> FALSE,
           raised |-> FALSE, hit |-> FALSE, key |-> 0, out |-> <<>>,
           msg |-> "", arg |-> 0, skipped |-> {}]

NoChunk == [st |-> "none", blob |-> NoBlob, version |-> -1]
\* key: the team key in force when the last kick with auto_rotate_keys was
\* accepted; remaining: the remainingMembers of that kick that are still
\* members; kicked: the users removed by such kicks and not invited again
NoRot == [key |-> 0, remaining |-> {}, kicked |-> {}]

\* the edge server's globals: last_sync_version = 0 and no sync_version.txt
\* (load_sync_version then answers 0). requested, size, done and failed
\* describe the latest pass of background_sync_worker that made a sync call:
\* the lastVersion it sent, the entries it received, the entries it got
\* through, and whether applying one raised.
\* store is local_vectorstore: store[f][i] describes the entries whose
\* document_name is that of chunk i of document f; n counts them up to
\* MaxCopies, which stands for MaxCopies or more, contents are their texts.
NoVectorStore ==
    [f \in Files |-> [i \in Idx |-> [n |-> 0, contents |-> {}]]]

NoEdge == [last_sync_version |-> 0, file |-> 0, requested |-> 0,
           size |-> 0, done |-> 0, failed |-> FALSE,
           store |-> NoVectorStore]

TeamExists(t) == t \in 1..nTeams

Init ==
    /\ registered = {}
    /\ srvPw = [u \in Users |-> 0]
    /\ srvEncPriv = [u \in Users |-> NoBlob]
    /\ nTeams = 0
    /\ role = [t \in Teams |-> [u \in Users |-> "NONE"]]
    /\ grant = [t \in Teams |-> [u \in Users |-> NoBlob]]
    /\ ownerBlob = [t \in Teams |-> NoBlob]
    /\ docs = [t \in Teams |-> [f \in Files |-> NoBlob]]
    /\ chunks = [t \in Teams |-> [f \in Files |-> [i \in Idx |-> NoChunk]]]
    /\ ver = [t \in Teams |-> 0]
    /\ nextKey = 1
    /\ session = [u \in Users |-> NoSession]
    /\ team_keys = [u \in Users |-> NoKeys]
    /\ rot = [t \in Teams |-> NoRot]
    /\ shared = NoIdentity
    /\ wire = {}
    /\ edge = NoEdge
    /\ last = NoLast

\* ------------------------------------------------ Transport: accounts ----
\* POST /auth/signup: Created unless the email is taken; the server numbers
\* the accounts in the order they are created
ApiSignup(u) == u \notin registered /\ u = Cardinality(registered) + 1

\* POST /auth/login: the stored encryptedPrivateKey, or InvalidCredentials
ApiLogin(u, pw) ==
    IF u \in registered /\ srvPw[u] = pw
    THEN [ok |-> TRUE, encryptedPrivateKey |-> srvEncPriv[u]]
    ELSE [ok |-> FALSE, encryptedPrivateKey |-> NoBlob]

\* GET /api/repositories/{id}/keys: the caller's MEMBER grant, or Forbidden
ApiGetTeamKey(t, u) ==
    IF TeamExists(t) /\ role[t][u] = "MEMBER" /\ grant[t][u] # NoBlob
    THEN [ok |-> TRUE, blob |-> grant[t][u]]
    ELSE [ok |-> FALSE, blob |-> NoBlob]

\* ----------------------------------------------------- _ensure_team_key --
\* The outcome of _ensure_team_key for session u: the key (0: it raised),
\* whether the cache was hit, and the cache entry afterwards.
EnsureTeamKeyMiss(u, t) ==
    IF ~is_authenticated(u)
    THEN [key |-> 0, hit |-> FALSE, called |-> FALSE, raised |-> TRUE]
    ELSE LET resp == ApiGetTeamKey(t, u)
             k == unwrapKey(resp.blob, session[u].priv)
         IN IF ~resp.ok
            THEN [key |-> 0, hit |-> FALSE, called |-> TRUE, raised |-> TRUE]
            ELSE [key |-> k, hit |-> FALSE, called |-> TRUE,
                  raised |-> (k = 0)]

\* a cache lookup that ignores the repository id
EnsureTeamKeyOfAnyTeam(u, t) ==
    IF \E x \in Teams : get_cached_team_key(u, x) # 0
    THEN [key |-> get_cached_team_key(u,
                     CHOOSE x \in Teams : get_cached_team_key(u, x) # 0),
          hit |-> TRUE, called |-> FALSE, raised |-> FALSE]
    ELSE EnsureTeamKeyMiss(u, t)

\* a lookup that asks the server on every call
EnsureTeamKeyAlwaysFetches(u, t) == EnsureTeamKeyMiss(u, t)

EnsureTeamKey(u, t) ==
    IF get_cached_team_key(u, t) # 0
    THEN [key |-> get_cached_team_key(u, t), hit |-> TRUE,
          called |-> FALSE, raised |-> FALSE]
    ELSE EnsureTeamKeyMiss(u, t)

\* a failed load that throws the caller's whole cache away
CacheAfterFailureClears(u, t, e) ==
    IF e.key # 0 THEN [team_keys EXCEPT ![u][t] = e.key]
    ELSE [team_keys EXCEPT ![u] = NoKeys]

\* the cache after _ensure_team_key returned or raised
CacheAfter(u, t, e) ==
    IF e.key # 0 THEN [team_keys EXCEPT ![u][t] = e.key] ELSE team_keys

\* ------------------------------------------------------ accounts --------
Signup(u, pw) ==
    /\ ApiSignup(u)
    /\ LET encrypted_private_key == protectPrivateKey(u, pw)
           success == ApiSignup(u)
       IN /\ registered' = IF success THEN registered \cup {u} ELSE registered
          /\ srvPw' = IF success THEN [srvPw EXCEPT ![u] = pw] ELSE srvPw
          /\ srvEncPriv' = IF success
                           THEN [srvEncPriv EXCEPT ![u] = encrypted_private_key]
                           ELSE srvEncPriv
          /\ wire' = wire \cup {PwTerm(pw), encrypted_private_key}
          /\ last' = [NoLast EXCEPT !.op = "signup", !.u = u, !.ok = success]
    /\ UNCHANGED <<edge, shared, srvTeams, srvData, nextKey, session, team_keys, rot>>

Login(u, pw) ==
    /\ LET resp == ApiLogin(u, pw)
           private_key == recoverPrivateKey(resp.encryptedPrivateKey, pw)
       IN /\ wire' = wire \cup {PwTerm(pw)}
          /\ IF ~resp.ok
             THEN /\ UNCHANGED <<session, team_keys>>
                  /\ last' = [NoLast EXCEPT !.op = "login",
                                            !.msg = "rejected"]
             ELSE IF private_key = 0
             THEN \* recovery failed: session.clear()
                  /\ session' = [session EXCEPT ![u] = NoSession]
                  /\ team_keys' = [team_keys EXCEPT ![u] = NoKeys]
                  /\ last' = [NoLast EXCEPT !.op = "login", !.u = u,
                                            !.msg = "recover_failed"]
             ELSE /\ session' = [session EXCEPT
                                   ![u] = [auth |-> TRUE, priv |-> private_key]]
                  /\ UNCHANGED team_keys
                  /\ last' = [NoLast EXCEPT !.op = "login", !.u = u,
                                            !.ok = TRUE]
    /\ UNCHANGED <<edge, shared, srvUsers, srvTeams, srvData, nextKey, rot>>

\* a logout that drops the token and the private key but keeps the key cache
LogoutKeepsTeamKeys(u) ==
    /\ session[u] # NoSession \/ team_keys[u] # NoKeys
    /\ session' = [session EXCEPT ![u] = NoSession]
    /\ UNCHANGED team_keys
    /\ last' = [NoLast EXCEPT !.op = "logout", !.u = u, !.ok = TRUE]
    /\ UNCHANGED <<edge, shared, srvUsers, srvTeams, srvData, nextKey, rot, wire>>

Logout(u) ==
    /\ session[u] # NoSession \/ team_keys[u] # NoKeys
    /\ session' = [session EXCEPT ![u] = NoSession]
    /\ team_keys' = [team_keys EXCEPT ![u] = NoKeys]
    /\ last' = [NoLast EXCEPT !.op = "logout", !.u = u, !.ok = TRUE]
    /\ UNCHANGED <<edge, shared, srvUsers, srvTeams, srvData, nextKey, rot, wire>>

\* POST /auth/reset-password: the server replaces the login password
ResetPassword(u, pw) ==
    /\ u \in registered
    /\ srvPw[u] # pw
    /\ srvPw' = [srvPw EXCEPT ![u] = pw]
    /\ wire' = wire \cup {PwTerm(pw)}
    /\ last' = [NoLast EXCEPT !.op = "reset_password", !.u = u, !.ok = TRUE]
    /\ UNCHANGED <<edge, shared, registered, srvEncPriv, srvTeams, srvData, nextKey,
                   session, team_keys, rot>>

\* a login that leaves the credentials in place when the recovery failed
LoginSessionKeepsCredentials(s, resp, u, pw) ==
    LET private_key == recoverPrivateKey(resp.encryptedPrivateKey, pw)
    IN IF ~resp.ok THEN s
       ELSE IF private_key = 0 THEN set_user_credentials(s, u)
       ELSE set_key_pair(set_user_credentials(s, u), private_key, private_key)

\* the session login leaves behind, from the session s it found: untouched
\* when the server refused, cleared when the private key was not recovered,
\* else the credentials and the key pair of the account
LoginSession(s, resp, u, pw) ==
    LET private_key == recoverPrivateKey(resp.encryptedPrivateKey, pw)
    IN IF ~resp.ok THEN s
       ELSE IF private_key = 0 THEN NoIdentity
       ELSE set_key_pair(set_user_credentials(s, u), private_key, private_key)

\* login on the ServeClient that several accounts use; last.arg is the
\* account the session held when login was called
SharedLogin(u, pw) ==
    /\ LET resp == ApiLogin(u, pw)
           private_key == recoverPrivateKey(resp.encryptedPrivateKey, pw)
       IN /\ wire' = wire \cup {PwTerm(pw)}
          /\ shared' = LoginSession(shared, resp, u, pw)
          /\ last' = [NoLast EXCEPT
                        !.op = "shared.login", !.u = u,
                        !.arg = shared.user_id,
                        !.ok = resp.ok /\ private_key # 0,
                        !.msg = IF ~resp.ok THEN "rejected"
                                ELSE IF private_key = 0 THEN "recover_failed"
                                ELSE ""]
    /\ UNCHANGED <<edge, srvUsers, srvTeams, srvData, nextKey, session,
                   team_keys, rot>>

\* logout on that ServeClient: session.clear()
SharedLogout ==
    /\ shared # NoIdentity
    /\ shared' = NoIdentity
    /\ last' = [NoLast EXCEPT !.op = "shared.logout", !.ok = TRUE]
    /\ UNCHANGED <<edge, srvUsers, srvTeams, srvData, nextKey, session,
                   team_keys, rot, wire>>

\* ------------------------------------------------- Transport: teams ----
\* POST /api/repositories: a new team owned by the caller (role ADMIN); the
\* owner's wrapped key is received but an ADMIN row carries no usable grant.
\* Team ids are 1..MaxTeams.
ApiCreateRepository == nTeams < MaxTeams

\* POST /api/teams/{id}/members: only the ADMIN invites, the invitee must
\* exist and not be in the team
ApiInviteMember(t, caller, v) ==
    /\ TeamExists(t)
    /\ role[t][caller] = "ADMIN"
    /\ v \in registered
    /\ role[t][v] = "NONE"

\* DELETE /api/teams/{id}/members/{target}: the body the server answers
ServerKickMember(t, caller, v) ==
    IF TeamExists(t) /\ role[t][caller] = "ADMIN" /\ role[t][v] = "MEMBER"
    THEN [ok |-> TRUE, keyRotationRequired |-> TRUE,
          remainingMembers |-> {m \in Users \ {v} : role[t][m] = "MEMBER"}]
    ELSE [ok |-> FALSE, keyRotationRequired |-> FALSE, remainingMembers |-> {}]

\* ApiClient.kick_member keeps the status and drops the body: what the
\* Facade receives is a message string, never the dict
ApiKickMember(t, caller, v) ==
    LET body == ServerKickMember(t, caller, v)
    IN [ok |-> body.ok, isDict |-> FALSE, keyRotationRequired |-> FALSE,
        remainingMembers |-> {}]

\* ApiClient has no method rotate_team_keys: the call raises AttributeError
ApiHasRotateTeamKeys == FALSE

\* ------------------------------------------------------ repositories ----
\* the key create_repository wraps for the server and the key it caches
CreateRepositoryKeys(k) == [wrapped |-> k, cached |-> k]

CreateRepository(u) ==
    /\ is_authenticated(u)
    /\ ApiCreateRepository
    /\ LET ks == CreateRepositoryKeys(nextKey)
           encrypted_team_key == wrapKey(ks.wrapped, session[u].priv)
           repo_id == nTeams + 1
       IN /\ wire' = wire \cup {encrypted_team_key}
          /\ nTeams' = repo_id
          /\ role' = [role EXCEPT ![repo_id][u] = "ADMIN"]
          /\ ownerBlob' = [ownerBlob EXCEPT ![repo_id] = encrypted_team_key]
          /\ team_keys' = [team_keys EXCEPT ![u][repo_id] = ks.cached]
          /\ nextKey' = nextKey + 1
          /\ last' = [NoLast EXCEPT !.op = "create_repository", !.u = u,
                                    !.t = repo_id, !.ok = TRUE,
                                    !.key = ks.cached]
    /\ UNCHANGED <<edge, shared, srvUsers, grant, srvData, session, rot>>

\* an invitation that wraps a newly generated key for the invitee
InviteFreshTeamKey(team_key, recipient_public_key) ==
    wrapKey(nextKey, recipient_public_key)

\* encrypted_team_key of invite_member: the team key the caller holds,
\* wrapped for the invitee's public key
InviteEncryptedTeamKey(team_key, recipient_public_key) ==
    wrapKey(team_key, recipient_public_key)

InviteMember(u, t, v) ==
    /\ TeamExists(t)
    /\ is_authenticated(u)
    /\ IF v \notin registered
       THEN \* get_user_public_key fails
            /\ last' = [NoLast EXCEPT !.op = "invite_member",
                                      !.msg = "no_public_key"]
            /\ UNCHANGED <<role, grant, team_keys, wire, rot>>
       ELSE LET e == EnsureTeamKey(u, t)
                encrypted_team_key == InviteEncryptedTeamKey(e.key, v)
                success == ApiInviteMember(t, u, v)
            IN /\ team_keys' = CacheAfter(u, t, e)
               /\ IF e.key = 0
                  THEN /\ last' = [NoLast EXCEPT !.op = "invite_member",
                                                 !.msg = "no_team_key"]
                       /\ UNCHANGED <<role, grant, wire>>
                  ELSE /\ wire' = wire \cup {encrypted_team_key}
                       /\ role' = IF success
                                  THEN [role EXCEPT ![t][v] = "MEMBER"]
                                  ELSE role
                       /\ grant' = IF success
                                   THEN [grant EXCEPT
                                           ![t][v] = encrypted_team_key]
                                   ELSE grant
                       /\ last' = IF success
                                  THEN [NoLast EXCEPT
                                          !.op = "invite_member", !.u = u,
                                          !.t = t, !.arg = v, !.ok = TRUE,
                                          !.key = e.key]
                                  ELSE [NoLast EXCEPT !.op = "invite_member",
                                                      !.msg = "rejected"]
               /\ rot' = IF e.key # 0 /\ success
                         THEN [rot EXCEPT ![t].kicked = rot[t].kicked \ {v}]
                         ELSE rot
    /\ UNCHANGED <<edge, shared, srvUsers, nTeams, ownerBlob, srvData, nextKey, session>>

\* what kick_member does after the kick was accepted
KickOutcome(resp, auto_rotate_keys) ==
    IF ~resp.isDict THEN "no_rotation_info"
    ELSE IF auto_rotate_keys /\ resp.keyRotationRequired
            /\ resp.remainingMembers # {}
    THEN IF ApiHasRotateTeamKeys THEN "rotated" ELSE "rotation_failed"
    ELSE IF resp.keyRotationRequired /\ ~auto_rotate_keys THEN "manual"
    ELSE "kicked"

\* a kick reported as failed when its rotation did not complete
KickSuccessWhenRotated(resp, auto_rotate_keys) ==
    resp.ok /\ KickOutcome(resp, auto_rotate_keys) \in {"rotated", "manual", "kicked"}

\* the success flag kick_member returns: once the server accepted the kick
\* every return statement says True
KickSuccess(resp, auto_rotate_keys) == resp.ok

\* ApiClient has no method reencrypt_document_keys either
ApiHasReencryptDocumentKeys == FALSE

\* remaining_members as a list, in the order of the user ids
RECURSIVE MembersInOrder(_)
MembersInOrder(S) ==
    IF S = {} THEN <<>>
    ELSE LET m == CHOOSE x \in S : \A y \in S : x <= y
         IN <<m>> \o MembersInOrder(S \ {m})

\* whether kick_member enters its rotation block (step 3)
KickEntersRotation(resp, auto_rotate_keys) ==
    /\ resp.isDict
    /\ auto_rotate_keys /\ resp.keyRotationRequired
    /\ resp.remainingMembers # {}

\* member_keys: the new team key wrapped for every remaining member
KickMemberKeys(resp, auto_rotate_keys, new_team_key) ==
    IF KickEntersRotation(resp, auto_rotate_keys)
    THEN LET remaining_members == MembersInOrder(resp.remainingMembers)
         IN [n \in DOMAIN remaining_members |->
               [userId |-> remaining_members[n],
                encryptedTeamKey |->
                    wrapKey(new_team_key, remaining_members[n])]]
    ELSE <<>>

\* the member_keys that reach the server through rotate_team_keys
KickSubmittedKeys(resp, auto_rotate_keys, new_team_key) ==
    IF ApiHasRotateTeamKeys
    THEN KickMemberKeys(resp, auto_rotate_keys, new_team_key)
    ELSE <<>>

\* reencrypted_docs of _reencrypt_all_documents: every document with an
\* encryptedDEK that unwraps under the old key, rewrapped under the new one
ReencryptedDocs(t, old_team_key, new_team_key) ==
    LET dek(f) == unwrapKeyWithKey(docs[t][f], old_team_key)
    IN [f \in {x \in Files : docs[t][x].tag = "kw" /\ dek(x) # 0} |->
          wrapKeyWithKey(dek(f), new_team_key)]

\* _reencrypt_all_documents raises: no old key in the cache, or the call of
\* the missing reencrypt_document_keys
ReencryptRaises(t, old_team_key, new_team_key) ==
    \/ old_team_key = 0
    \/ /\ DOMAIN ReencryptedDocs(t, old_team_key, new_team_key) # {}
       /\ ~ApiHasReencryptDocumentKeys

\* what kick_member reports: KickOutcome, or the failure of the
\* re-encryption that follows an accepted rotate_team_keys
KickMessage(resp, auto_rotate_keys, t, old_team_key, new_team_key) ==
    IF /\ KickOutcome(resp, auto_rotate_keys) = "rotated"
       /\ ReencryptRaises(t, old_team_key, new_team_key)
    THEN "reencrypt_failed"
    ELSE KickOutcome(resp, auto_rotate_keys)

\* the document ids named in what kick_member returns: its messages carry
\* the number of members at most; skipped documents are only printed
KickReportedSkipped(resp, auto_rotate_keys, t, old_team_key, new_team_key) ==
    {}

\* a kick that gives every document of the team a fresh DEK wrapper
KickDocumentsNewDek(resp, auto_rotate_keys, t, old_team_key, new_team_key) ==
    [f \in Files |-> IF docs[t][f].tag = "kw"
                     THEN wrapKeyWithKey(new_team_key, old_team_key)
                     ELSE docs[t][f]]

\* the encryptedDEK column of the team after kick_member: changed only when
\* the rotation was committed and reencrypt_document_keys was accepted
KickDocuments(resp, auto_rotate_keys, t, old_team_key, new_team_key) ==
    LET reencrypted_docs == ReencryptedDocs(t, old_team_key, new_team_key)
    IN IF KickMessage(resp, auto_rotate_keys, t, old_team_key,
                      new_team_key) = "rotated"
       THEN [f \in Files |-> IF f \in DOMAIN reencrypted_docs
                             THEN reencrypted_docs[f] ELSE docs[t][f]]
       ELSE docs[t]

\* a rotation that puts the generated key into the cache as soon as the
\* server accepted the kick
KickCachedKeyOnAccept(resp, auto_rotate_keys, t, cached_key, new_team_key) ==
    IF auto_rotate_keys THEN new_team_key ELSE cached_key

\* the caller's cache entry after kick_member: the new key only after
\* rotate_team_keys and _reencrypt_all_documents both went through
KickCachedKey(resp, auto_rotate_keys, t, cached_key, new_team_key) ==
    IF KickMessage(resp, auto_rotate_keys, t, cached_key,
                   new_team_key) = "rotated"
    THEN new_team_key ELSE cached_key

\* a rotation whose member rows are rewritten although it was not committed
KickGrantsOnAccept(resp, auto_rotate_keys, t, v, new_team_key) ==
    [m \in Users |->
        IF m = v THEN NoBlob
        ELSE IF role[t][m] = "MEMBER" /\ auto_rotate_keys
        THEN wrapKey(new_team_key, m) ELSE grant[t][m]]

\* the encryptedTeamKey rows of the team after an accepted kick: the
\* target's row is gone, the others are replaced by the submitted keys
KickGrants(resp, auto_rotate_keys, t, v, new_team_key) ==
    LET member_keys == KickSubmittedKeys(resp, auto_rotate_keys, new_team_key)
    IN [m \in Users |->
          IF m = v THEN NoBlob
          ELSE IF \E n \in DOMAIN member_keys : member_keys[n].userId = m
          THEN wrapKey(new_team_key, m) ELSE grant[t][m]]

KickMember(u, t, v, auto_rotate_keys) ==
    /\ TeamExists(t)
    /\ is_authenticated(u)
    /\ LET body == ServerKickMember(t, u, v)
           resp == ApiKickMember(t, u, v)
           new_team_key == nextKey
           old_team_key == get_cached_team_key(u, t)
           member_keys == KickSubmittedKeys(resp, auto_rotate_keys,
                                            new_team_key)
       IN IF ~resp.ok
          THEN /\ last' = [NoLast EXCEPT !.op = "kick_member",
                                         !.msg = "kick_failed"]
               /\ UNCHANGED <<role, grant, rot, docs, team_keys, nextKey,
                              wire>>
          ELSE /\ role' = [role EXCEPT ![t][v] = "NONE"]
               /\ grant' = [grant EXCEPT
                              ![t] = KickGrants(resp, auto_rotate_keys, t, v,
                                                new_team_key)]
               /\ docs' = [docs EXCEPT
                             ![t] = KickDocuments(resp, auto_rotate_keys, t,
                                                  old_team_key, new_team_key)]
               /\ team_keys' = [team_keys EXCEPT
                                  ![u][t] = KickCachedKey(resp,
                                               auto_rotate_keys, t,
                                               old_team_key, new_team_key)]
               /\ nextKey' = IF KickEntersRotation(resp, auto_rotate_keys)
                             THEN nextKey + 1 ELSE nextKey
               /\ wire' = wire \cup
                            {member_keys[n].encryptedTeamKey :
                                n \in DOMAIN member_keys}
               /\ rot' = [rot EXCEPT ![t] =
                            IF auto_rotate_keys /\ body.keyRotationRequired
                            THEN [key |-> grant[t][v].a,
                                  remaining |-> body.remainingMembers,
                                  kicked |-> rot[t].kicked \cup {v}]
                            ELSE [rot[t] EXCEPT
                                    !.remaining = rot[t].remaining \ {v}]]
               /\ last' = [NoLast EXCEPT
                             !.op = "kick_member", !.u = u, !.t = t,
                             !.arg = v,
                             !.ok = KickSuccess(resp, auto_rotate_keys),
                             !.hit = auto_rotate_keys,
                             !.key = grant[t][v].a,
                             !.out = member_keys,
                             !.skipped =
                                KickReportedSkipped(resp, auto_rotate_keys, t,
                                                    old_team_key,
                                                    new_team_key),
                             !.msg = KickMessage(resp, auto_rotate_keys, t,
                                                 old_team_key, new_team_key)]
    /\ UNCHANGED <<edge, shared, srvUsers, nTeams, ownerBlob, chunks, ver, session>>

\* -------------------------------------------------- Transport: data ----
\* GET /api/teams/{id}/documents is open to ADMIN and MEMBER; whether the
\* server also answers somebody else is the server's choice (lax)
ApiGetDocumentsAllowed(t, u, lax) ==
    TeamExists(t) /\ (role[t][u] \in {"ADMIN", "MEMBER"} \/ lax)

\* GET /api/sync/chunks is open to MEMBER; the rest is the server's choice
ApiSyncAllowed(t, u, lax) ==
    TeamExists(t) /\ (role[t][u] = "MEMBER" \/ lax)

\* the document list of a team: metadata and encryptedDEK
ApiGetDocuments(t) ==
    {[docId |-> f, fileName |-> f, encryptedDEK |-> docs[t][f]] :
        f \in {x \in Files : docs[t][x] # NoBlob}}

\* the chunk row of team t that carries version v, as a delta entry
RowsAt(t, v) ==
    {[documentId |-> x[1], chunkIndex |-> x[2],
      encryptedBlob |-> chunks[t][x[1]][x[2]].blob,
      version |-> v, isDeleted |-> (chunks[t][x[1]][x[2]].st = "del")] :
        x \in {y \in Files \X Idx :
                  /\ chunks[t][y[1]][y[2]].st # "none"
                  /\ chunks[t][y[1]][y[2]].version = v}}

RECURSIVE SyncFrom(_, _)
SyncFrom(t, v) ==
    IF v >= ver[t] THEN <<>>
    ELSE (IF RowsAt(t, v) = {} THEN <<>> ELSE <<CHOOSE r \in RowsAt(t, v) : TRUE>>)
         \o SyncFrom(t, v + 1)

\* syncTeamChunks(teamId, lastVersion): rows with version > lastVersion,
\* in version order
ApiSyncTeamChunks(t, last_version) == SyncFrom(t, last_version + 1)

\* ApiClient.upload_chunks(doc_id, chunks, access_token) takes three
\* arguments; upload_chunks_to_document passes five
ApiUploadChunksParams == 3
UploadChunksArgs == 5
ApiUploadChunksCallable == (UploadChunksArgs = ApiUploadChunksParams)

\* --------------------------------------------------------- documents ----
Raised(op, u) == [NoLast EXCEPT !.op = op, !.u = u, !.raised = TRUE]

\* decrypted_chunks.sort(key=chunkIndex): stable insertion sort
RECURSIVE InsertByChunkIndex(_, _)
InsertByChunkIndex(sorted, c) ==
    IF sorted = <<>> THEN <<c>>
    ELSE IF sorted[Len(sorted)].chunkIndex <= c.chunkIndex
         THEN Append(sorted, c)
         ELSE Append(InsertByChunkIndex(SubSeq(sorted, 1, Len(sorted) - 1), c),
                     sorted[Len(sorted)])

RECURSIVE SortByChunkIndex(_)
SortByChunkIndex(s) ==
    IF s = <<>> THEN <<>>
    ELSE InsertByChunkIndex(SortByChunkIndex(SubSeq(s, 1, Len(s) - 1)),
                            s[Len(s)])

\* the chunks in the order the sync delivered them
DownloadOrderAsSynced(decrypted_chunks) == decrypted_chunks

\* the list download_chunks_from_document returns once every chunk decrypted
DownloadOrder(decrypted_chunks) == SortByChunkIndex(decrypted_chunks)

\* the key download_chunks_from_document decrypts the chunk payloads with
DownloadChunkKey(dek, team_key) == dek

\* the key sync_team_chunks decrypts the chunk payloads with
SyncChunkKey(team_key) == team_key

GetDocumentsEnsuresTeamKey == TRUE

\* get_documents needs no team key
GetDocumentsNeedsKey == FALSE

GetDocuments(u, t, lax) ==
    /\ TeamExists(t)
    /\ IF ~is_authenticated(u)
       THEN last' = Raised("get_documents", u)
       ELSE LET allowed == ApiGetDocumentsAllowed(t, u, lax)
                    /\ (GetDocumentsNeedsKey => EnsureTeamKey(u, t).key # 0)
            IN last' = [NoLast EXCEPT !.op = "get_documents", !.u = u, !.t = t,
                          !.ok = allowed,
                          !.out = IF allowed THEN ApiGetDocuments(t) ELSE {}]
    /\ UNCHANGED <<edge, shared, srvUsers, srvTeams, srvData, nextKey, session, team_keys,
                   rot, wire>>

EnsureTeamKeyCall(u, t) ==
    /\ TeamExists(t)
    /\ LET e == EnsureTeamKey(u, t)
       IN /\ team_keys' = CacheAfter(u, t, e)
          /\ last' = [NoLast EXCEPT !.op = "_ensure_team_key", !.u = u,
                        !.t = t, !.ok = (e.key # 0), !.raised = e.raised,
                        !.hit = e.hit, !.key = e.key,
                        !.arg = IF e.called THEN 1 ELSE 0]
    /\ UNCHANGED <<edge, shared, srvUsers, srvTeams, srvData, nextKey, session, rot, wire>>

\* download_chunks_from_document after _ensure_authenticated passed
DownloadResult(u, t, f, lax) ==
    LET fail(m, e) == [ok |-> FALSE, msg |-> m, e |-> e, out |-> <<>>]
        none == [key |-> 0, hit |-> FALSE, called |-> FALSE, raised |-> FALSE]
        all_chunks == ApiSyncTeamChunks(t, -1)
        document_chunks ==
            SelectSeq(all_chunks, LAMBDA c : c.documentId = f /\ ~c.isDeleted)
        e == EnsureTeamKey(u, t)
        dek == unwrapKeyWithKey(docs[t][f], e.key)
        decrypted_chunks ==
            [n \in DOMAIN document_chunks |->
                [chunkIndex |-> document_chunks[n].chunkIndex,
                 data |-> decrypt(document_chunks[n].encryptedBlob,
                                  DownloadChunkKey(dek, e.key)),
                 version |-> document_chunks[n].version]]
    IN IF ~ApiGetDocumentsAllowed(t, u, lax) THEN fail("documents", none)
       ELSE IF docs[t][f] = NoBlob THEN fail("not_found", none)
       ELSE IF ~ApiSyncAllowed(t, u, lax) THEN fail("sync", none)
       ELSE IF document_chunks = <<>> THEN fail("no_chunks", none)
       ELSE IF e.key = 0 THEN fail("no_team_key", e)
       ELSE IF dek = 0 THEN fail("dek", e)
       ELSE IF \E n \in DOMAIN decrypted_chunks : decrypted_chunks[n].data = 0
            THEN fail("decrypt", e)
       ELSE [ok |-> TRUE, msg |-> "ok", e |-> e,
             out |-> DownloadOrder(decrypted_chunks)]

DownloadChunksFromDocument(u, t, f, lax) ==
    /\ TeamExists(t)
    /\ IF ~is_authenticated(u)
       THEN /\ last' = Raised("download", u)
            /\ UNCHANGED team_keys
       ELSE LET r == DownloadResult(u, t, f, lax)
            IN /\ team_keys' = CacheAfter(u, t, r.e)
               /\ last' = [NoLast EXCEPT !.op = "download", !.u = u, !.t = t,
                             !.f = f, !.ok = r.ok, !.hit = r.e.hit,
                             !.key = r.e.key, !.out = r.out, !.msg = r.msg]
    /\ UNCHANGED <<edge, shared, srvUsers, srvTeams, srvData, nextKey, session, rot, wire>>

\* a sync that leaves out the chunks it cannot decrypt and returns the rest
SyncResultSkipsUnreadable(u, t, last_version, lax) ==
    LET fail(m, e) == [ok |-> FALSE, msg |-> m, e |-> e, out |-> <<>>]
        none == [key |-> 0, hit |-> FALSE, called |-> FALSE, raised |-> FALSE]
        chunks_ == ApiSyncTeamChunks(t, last_version)
        e == EnsureTeamKey(u, t)
        result ==
            [n \in DOMAIN chunks_ |->
                [documentId |-> chunks_[n].documentId,
                 chunkIndex |-> chunks_[n].chunkIndex,
                 version |-> chunks_[n].version,
                 isDeleted |-> chunks_[n].isDeleted,
                 data |-> IF chunks_[n].isDeleted THEN -1
                          ELSE decrypt(chunks_[n].encryptedBlob,
                                       SyncChunkKey(e.key))]]
    IN IF ~ApiSyncAllowed(t, u, lax) THEN fail("sync", none)
       ELSE IF chunks_ = <<>>
            THEN [ok |-> TRUE, msg |-> "no_changes", e |-> none, out |-> <<>>]
       ELSE IF e.key = 0 THEN fail("no_team_key", e)
       ELSE [ok |-> TRUE, msg |-> "ok", e |-> e,
             out |-> SelectSeq(result, LAMBDA c : c.data # 0)]

\* sync_team_chunks after _ensure_authenticated passed
SyncResult(u, t, last_version, lax) ==
    LET fail(m, e) == [ok |-> FALSE, msg |-> m, e |-> e, out |-> <<>>]
        none == [key |-> 0, hit |-> FALSE, called |-> FALSE, raised |-> FALSE]
        chunks_ == ApiSyncTeamChunks(t, last_version)
        e == EnsureTeamKey(u, t)
        result ==
            [n \in DOMAIN chunks_ |->
                [documentId |-> chunks_[n].documentId,
                 chunkIndex |-> chunks_[n].chunkIndex,
                 version |-> chunks_[n].version,
                 isDeleted |-> chunks_[n].isDeleted,
                 data |-> IF chunks_[n].isDeleted THEN -1
                          ELSE decrypt(chunks_[n].encryptedBlob,
                                       SyncChunkKey(e.key))]]
    IN IF ~ApiSyncAllowed(t, u, lax) THEN fail("sync", none)
       ELSE IF chunks_ = <<>>
            THEN [ok |-> TRUE, msg |-> "no_changes", e |-> none, out |-> <<>>]
       ELSE IF e.key = 0 THEN fail("no_team_key", e)
       ELSE IF \E n \in DOMAIN result : result[n].data = 0
            THEN fail("decrypt", e)
       ELSE [ok |-> TRUE, msg |-> "ok", e |-> e, out |-> result]

SyncTeamChunks(u, t, last_version, lax) ==
    /\ TeamExists(t)
    /\ IF ~is_authenticated(u)
       THEN /\ last' = Raised("sync_team_chunks", u)
            /\ UNCHANGED team_keys
       ELSE LET r == SyncResult(u, t, last_version, lax)
            IN /\ team_keys' = CacheAfter(u, t, r.e)
               /\ last' = [NoLast EXCEPT !.op = "sync_team_chunks", !.u = u,
                             !.t = t, !.ok = r.ok, !.hit = r.e.hit,
                             !.key = r.e.key, !.out = r.out, !.msg = r.msg,
                             !.arg = last_version]
    /\ UNCHANGED <<edge, shared, srvUsers, srvTeams, srvData, nextKey, session, rot, wire>>

\* upload_document: the whole plaintext encrypted under the team key and
\* posted as one document; accepted is the server's answer. The server keeps
\* such documents outside the chunk store.
UploadDocument(u, t, p, accepted) ==
    /\ TeamExists(t)
    /\ IF ~is_authenticated(u)
       THEN /\ last' = Raised("upload_document", u)
            /\ UNCHANGED <<team_keys, wire>>
       ELSE LET e == EnsureTeamKey(u, t)
                encrypted_content == encrypt(p, e.key)
            IN /\ team_keys' = CacheAfter(u, t, e)
               /\ IF e.key = 0
                  THEN /\ last' = [NoLast EXCEPT !.op = "upload_document",
                                     !.u = u, !.t = t, !.msg = "no_team_key"]
                       /\ UNCHANGED wire
                  ELSE /\ wire' = wire \cup {encrypted_content}
                       /\ last' = [NoLast EXCEPT !.op = "upload_document",
                                     !.u = u, !.t = t, !.ok = accepted,
                                     !.hit = e.hit, !.key = e.key,
                                     !.msg = IF accepted THEN "ok"
                                             ELSE "rejected",
                                     !.arg = p]
    /\ UNCHANGED <<edge, shared, srvUsers, srvTeams, srvData, nextKey, session, rot>>

\* GET /api/documents/{id}/chunks/sync: the rows of one document with
\* version > lastVersion
ApiSyncDocumentChunks(t, f, last_version) ==
    SelectSeq(ApiSyncTeamChunks(t, last_version), LAMBDA c : c.documentId = f)

\* sync_document_chunks after _ensure_authenticated passed
SyncDocumentResult(u, t, f, last_version, lax) ==
    LET fail(m, e) == [ok |-> FALSE, msg |-> m, e |-> e, out |-> <<>>]
        none == [key |-> 0, hit |-> FALSE, called |-> FALSE, raised |-> FALSE]
        chunks_ == ApiSyncDocumentChunks(t, f, last_version)
        e == EnsureTeamKey(u, t)
        decrypted_chunks ==
            [n \in DOMAIN chunks_ |->
                [chunkIndex |-> chunks_[n].chunkIndex,
                 version |-> chunks_[n].version,
                 isDeleted |-> chunks_[n].isDeleted,
                 data |-> IF chunks_[n].isDeleted THEN -1
                          ELSE decrypt(chunks_[n].encryptedBlob,
                                       SyncChunkKey(e.key))]]
    IN IF ~ApiSyncAllowed(t, u, lax) \/ docs[t][f] = NoBlob
       THEN fail("sync", none)
       ELSE IF chunks_ = <<>>
            THEN [ok |-> TRUE, msg |-> "no_changes", e |-> none, out |-> <<>>]
       ELSE IF e.key = 0 THEN fail("no_team_key", e)
       ELSE IF \E n \in DOMAIN decrypted_chunks : decrypted_chunks[n].data = 0
            THEN fail("decrypt", e)
       ELSE [ok |-> TRUE, msg |-> "ok", e |-> e, out |-> decrypted_chunks]

SyncDocumentChunks(u, t, f, last_version, lax) ==
    /\ TeamExists(t)
    /\ IF ~is_authenticated(u)
       THEN /\ last' = Raised("sync_document_chunks", u)
            /\ UNCHANGED team_keys
       ELSE LET r == SyncDocumentResult(u, t, f, last_version, lax)
            IN /\ team_keys' = CacheAfter(u, t, r.e)
               /\ last' = [NoLast EXCEPT !.op = "sync_document_chunks",
                             !.u = u, !.t = t, !.f = f, !.ok = r.ok,
                             !.hit = r.e.hit, !.key = r.e.key, !.out = r.out,
                             !.msg = r.msg, !.arg = last_version]
    /\ UNCHANGED <<edge, shared, srvUsers, srvTeams, srvData, nextKey, session, rot,
                   wire>>

\* upload_chunks_to_document with one chunk {chunkIndex: i, data: p}
UploadChunksToDocument(u, t, f, i, p) ==
    /\ TeamExists(t)
    /\ IF ~is_authenticated(u)
       THEN /\ last' = Raised("upload", u)
            /\ UNCHANGED team_keys
       ELSE LET e == EnsureTeamKey(u, t)
                dek == nextKey
                encrypted_chunks ==
                    <<[chunkIndex |-> i, encryptedBlob |-> encrypt(p, dek)]>>
                encrypted_dek == wrapKeyWithKey(dek, e.key)
            IN /\ team_keys' = CacheAfter(u, t, e)
               /\ IF e.key = 0
                  THEN last' = [NoLast EXCEPT !.op = "upload", !.u = u,
                                  !.t = t, !.f = f, !.msg = "no_team_key"]
                  ELSE \* the call of ApiClient.upload_chunks raises TypeError
                       /\ ~ApiUploadChunksCallable
                       /\ last' = [NoLast EXCEPT !.op = "upload", !.u = u,
                                     !.t = t, !.f = f, !.hit = e.hit,
                                     !.key = dek, !.out = encrypted_chunks,
                                     !.msg = "TypeError", !.arg = p]
    /\ UNCHANGED <<edge, shared, srvUsers, srvTeams, srvData, nextKey, session, rot, wire>>

\* A conforming writer of spec §6 uploadChunks: member u encrypts chunk i of
\* file f under the document's DEK; the first upload creates the document
\* with a fresh DEK wrapped under the team key of u's grant.
PeerUploadChunks(u, t, f, i, p) ==
    /\ TeamExists(t)
    /\ role[t][u] = "MEMBER"
    /\ ver[t] < MaxWrites
    /\ LET team_key == unwrapKey(grant[t][u], u)
           dek == IF docs[t][f] = NoBlob THEN nextKey
                  ELSE unwrapKeyWithKey(docs[t][f], team_key)
           blob == encrypt(p, dek)
       IN /\ team_key # 0
          /\ dek # 0
          /\ docs[t][f] = NoBlob => nextKey <= MaxKeys
          /\ docs' = IF docs[t][f] = NoBlob
                     THEN [docs EXCEPT ![t][f] = wrapKeyWithKey(dek, team_key)]
                     ELSE docs
          /\ nextKey' = IF docs[t][f] = NoBlob THEN nextKey + 1 ELSE nextKey
          /\ chunks' = [chunks EXCEPT ![t][f][i] =
                          [st |-> "live", blob |-> blob, version |-> ver[t]]]
          /\ ver' = [ver EXCEPT ![t] = ver[t] + 1]
          /\ wire' = wire \cup {blob, wrapKeyWithKey(dek, team_key)}
          /\ last' = [NoLast EXCEPT !.op = "peer_upload", !.ok = TRUE]
    /\ UNCHANGED <<edge, shared, srvUsers, srvTeams, session, team_keys, rot>>

\* delete_chunk_from_document: DELETE /api/documents/{id}/chunks/{index}
\* turns the row of a MEMBER's team into a tombstone with a new version
DeleteChunkFromDocument(u, t, f, i) ==
    /\ TeamExists(t)
    /\ is_authenticated(u)
    /\ IF role[t][u] = "MEMBER" /\ chunks[t][f][i].st = "live"
          /\ ver[t] < MaxWrites
       THEN /\ chunks' = [chunks EXCEPT ![t][f][i] =
                            [st |-> "del", blob |-> NoBlob,
                             version |-> ver[t]]]
            /\ ver' = [ver EXCEPT ![t] = ver[t] + 1]
            /\ last' = [NoLast EXCEPT !.op = "delete_chunk", !.ok = TRUE]
       ELSE /\ last' = [NoLast EXCEPT !.op = "delete_chunk"]
            /\ UNCHANGED <<chunks, ver>>
    /\ UNCHANGED <<edge, shared, srvUsers, srvTeams, docs, nextKey, session, team_keys,
                   rot, wire>>

\* A writer of the chunk format sync_team_chunks and sync_document_chunks
\* read: the payload is encrypted directly under the team key of u's grant
\* and the document carries no encryptedDEK.
NoDek == [tag |-> "nodek", a |-> 0, b |-> 0]

PeerUploadTeamKeyChunk(u, t, f, i, p) ==
    /\ TeamExists(t)
    /\ role[t][u] = "MEMBER"
    /\ ver[t] < MaxWrites
    /\ docs[t][f] \in {NoBlob, NoDek}
    /\ LET team_key == unwrapKey(grant[t][u], u)
           blob == encrypt(p, team_key)
       IN /\ team_key # 0
          /\ docs' = [docs EXCEPT ![t][f] = NoDek]
          /\ chunks' = [chunks EXCEPT ![t][f][i] =
                          [st |-> "live", blob |-> blob, version |-> ver[t]]]
          /\ ver' = [ver EXCEPT ![t] = ver[t] + 1]
          /\ wire' = wire \cup {blob}
          /\ last' = [NoLast EXCEPT !.op = "peer_upload", !.ok = TRUE]
    /\ UNCHANGED <<edge, shared, srvUsers, srvTeams, nextKey, session, team_keys, rot>>

\* ------------------------------------------------------- edge server ----
\* the account (EDGE_EMAIL) and the team (TEAM_ID) the edge server runs as
EdgeUser == 2
TEAM_ID == 1

\* documents_chunks: the entries grouped by document, documents in the
\* order of their first entry
RECURSIVE GroupByDocument(_)
GroupByDocument(result) ==
    IF result = <<>> THEN <<>>
    ELSE SelectSeq(result, LAMBDA c : c.documentId = result[1].documentId)
         \o GroupByDocument(
              SelectSeq(result, LAMBDA c : c.documentId # result[1].documentId))

RECURSIVE MaxVersion(_, _)
MaxVersion(entries, max_version) ==
    IF entries = <<>> THEN max_version
    ELSE MaxVersion(Tail(entries),
                    IF entries[1].version > max_version
                    THEN entries[1].version ELSE max_version)

\* a worker that moves the watermark to the versions seen so far even
\* when the pass was cut short
WatermarkAfterPartial(last_sync_version, seen, complete) ==
    MaxVersion(seen, last_sync_version)

\* last_sync_version when the pass ends: seen are the entries the loop got
\* through, complete tells whether it got through all of them
WatermarkAfter(last_sync_version, seen, complete) ==
    IF complete /\ MaxVersion(seen, last_sync_version) > last_sync_version
    THEN MaxVersion(seen, last_sync_version)
    ELSE last_sync_version

\* add_to_vector_store (create_vector_store for the first entry): the text
\* becomes a new entry under document_name, next to whatever is there
AddToVectorStore(store, f, i, data) ==
    [store EXCEPT ![f][i] =
        [n |-> IF store[f][i].n < MaxCopies THEN store[f][i].n + 1
               ELSE MaxCopies,
         contents |-> store[f][i].contents \cup {data}]]

\* the for loop of the worker over the entries it got through: a live entry
\* is added to the vector store, a deleted one is logged and nothing else
RECURSIVE ApplyToVectorStore(_, _)
ApplyToVectorStore(store, seen) ==
    IF seen = <<>> THEN store
    ELSE ApplyToVectorStore(
            IF seen[1].isDeleted THEN store
            ELSE AddToVectorStore(store, seen[1].documentId,
                                  seen[1].chunkIndex, seen[1].data),
            Tail(seen))

\* One pass of background_sync_worker after the sleep. fail_at = n > 0:
\* applying the n-th entry to the vector store raises (live entries only);
\* save_fails: writing sync_version.txt raises inside save_sync_version.
BackgroundSyncPass(fail_at, save_fails, lax) ==
    /\ TeamExists(TEAM_ID)
    /\ IF ~is_authenticated(EdgeUser)
       THEN /\ last' = [NoLast EXCEPT !.op = "worker", !.msg = "skipped"]
            /\ UNCHANGED <<edge, shared, team_keys>>
       ELSE LET last_sync_version == edge.last_sync_version
                r == SyncResult(EdgeUser, TEAM_ID, last_sync_version, lax)
                entries == GroupByDocument(r.out)
                complete == fail_at = 0
                done == IF complete THEN Len(entries) ELSE fail_at - 1
                new == WatermarkAfter(last_sync_version,
                                      SubSeq(entries, 1, done), complete)
            IN /\ fail_at \in 0..Len(entries)
               /\ fail_at > 0 => ~entries[fail_at].isDeleted
               /\ save_fails => new # last_sync_version
               /\ team_keys' = CacheAfter(EdgeUser, TEAM_ID, r.e)
               /\ edge' = [last_sync_version |-> new,
                           file |-> IF new # last_sync_version /\ ~save_fails
                                    THEN new ELSE edge.file,
                           requested |-> last_sync_version,
                           size |-> Len(entries), done |-> done,
                           failed |-> ~complete,
                           store |-> ApplyToVectorStore(
                                        edge.store,
                                        SubSeq(entries, 1, done))]
               /\ last' = [NoLast EXCEPT !.op = "worker", !.u = EdgeUser,
                             !.t = TEAM_ID, !.ok = r.ok /\ complete,
                             !.key = r.e.key, !.hit = r.e.hit,
                             !.out = entries, !.msg = r.msg,
                             !.arg = last_sync_version]
    /\ UNCHANGED <<shared, srvUsers, srvTeams, srvData, nextKey, session, rot,
                   wire>>

Next ==
    \/ \E u \in Users, t \in Teams, lax \in BOOLEAN : GetDocuments(u, t, lax)
    \/ \E u \in Users, t \in Teams : EnsureTeamKeyCall(u, t)
    \/ \E u \in Users, t \in Teams, f \in Files, lax \in BOOLEAN :
          DownloadChunksFromDocument(u, t, f, lax)
    \/ \E u \in Users, t \in Teams, v \in SyncVersions, lax \in BOOLEAN :
          SyncTeamChunks(u, t, v, lax)
    \/ \E u \in Users, t \in Teams, f \in Files, i \in Idx, p \in Plain :
          UploadChunksToDocument(u, t, f, i, p)
    \/ \E u \in Users, t \in Teams, f \in Files, i \in Idx, p \in Plain :
          PeerUploadChunks(u, t, f, i, p)
    \/ \E u \in Users, t \in Teams, f \in Files, i \in Idx :
          DeleteChunkFromDocument(u, t, f, i)
    \/ \E u \in Users, pw \in SignupPasswords : Signup(u, pw)
    \/ \E u \in Users, pw \in SignupPasswords : Login(u, pw)
    \/ \E u \in Users : Logout(u)
    \/ \E u \in Admins : CreateRepository(u)
    \/ \E u \in Users, t \in Teams, v \in Users : InviteMember(u, t, v)
    \/ \E u \in Users, t \in Teams, v \in Users, a \in BOOLEAN :
          KickMember(u, t, v, a)
    \/ \E u \in Users, pw \in Passwords : ResetPassword(u, pw)
    \/ \E u \in Users, t \in Teams, f \in Files, i \in Idx, p \in Plain :
          PeerUploadTeamKeyChunk(u, t, f, i, p)
    \/ \E u \in Users, t \in Teams, f \in Files, v \in SyncVersions,
          lax \in BOOLEAN : SyncDocumentChunks(u, t, f, v, lax)
    \/ \E u \in Users, t \in Teams, p \in Plain, accepted \in BOOLEAN :
          UploadDocument(u, t, p, accepted)
    \/ \E n \in 0..MaxWrites, save_fails, lax \in BOOLEAN :
          BackgroundSyncPass(n, save_fails, lax)
    \/ \E u \in Users, pw \in Passwords : SharedLogin(u, pw)
    \/ SharedLogout

Spec == Init /\ [][Next]_vars

\* accounts and passwords only
NextAuth ==
    \/ \E u \in Users, pw \in Passwords : Signup(u, pw)
    \/ \E u \in Users, pw \in Passwords : Login(u, pw)
    \/ \E u \in Users : Logout(u)
    \/ \E u \in Users, pw \in Passwords : ResetPassword(u, pw)

SpecAuth == Init /\ [][NextAuth]_vars

\* one ServeClient on which the accounts log in and out in turn
NextIdentity ==
    \/ \E u \in Users, pw \in Passwords : Signup(u, pw)
    \/ \E u \in Users, pw \in Passwords : ResetPassword(u, pw)
    \/ \E u \in Users, pw \in Passwords : SharedLogin(u, pw)
    \/ SharedLogout

SpecIdentity == Init /\ [][NextIdentity]_vars

\* membership: one team, its invitations and kicks, and what each party can
\* then read of documents that hold one chunk
NextMembers ==
    \/ \E u \in Users, pw \in SignupPasswords : Signup(u, pw)
    \/ \E u \in Users, pw \in SignupPasswords : Login(u, pw)
    \/ \E u \in Users : Logout(u)
    \/ \E u \in Admins : nTeams = 0 /\ CreateRepository(u)
    \/ \E u \in Users, t \in Teams, v \in Users : InviteMember(u, t, v)
    \/ \E u \in Users, t \in Teams, v \in Users, a \in BOOLEAN :
          KickMember(u, t, v, a)
    \/ \E u \in Users, t \in Teams, f \in Files :
          ver[t] < FewWrites /\ PeerUploadChunks(u, t, f, 0, 1)
    \/ \E u \in Users, t \in Teams, lax \in BOOLEAN : GetDocuments(u, t, lax)
    \/ \E u \in Users, t \in Teams : EnsureTeamKeyCall(u, t)
    \/ \E u \in Users, t \in Teams, f \in Files, lax \in BOOLEAN :
          DownloadChunksFromDocument(u, t, f, lax)

SpecMembers == Init /\ [][NextMembers]_vars

\* documents: one team whose membership only grows, and every data operation
NextData ==
    \/ \E u \in Users, pw \in SignupPasswords : Signup(u, pw)
    \/ \E u \in Users, pw \in SignupPasswords : Login(u, pw)
    \/ \E u \in Admins : nTeams = 0 /\ CreateRepository(u)
    \/ \E u \in Admins, t \in Teams, v \in Users : InviteMember(u, t, v)
    \/ \E u \in Users, t \in Teams, f \in Files, i \in Idx, p \in Plain :
          ver[t] < FewWrites /\ PeerUploadChunks(u, t, f, i, p)
    \/ \E u \in Users, t \in Teams, f \in Files, i \in Idx :
          ver[t] < FewWrites /\ DeleteChunkFromDocument(u, t, f, i)
    \/ \E u \in Users, t \in Teams, f \in Files, i \in Idx, p \in Plain :
          UploadChunksToDocument(u, t, f, i, p)
    \/ \E u \in Users, t \in Teams, v \in SyncVersions, lax \in BOOLEAN :
          SyncTeamChunks(u, t, v, lax)
    \/ \E u \in Users, t \in Teams, f \in Files, lax \in BOOLEAN :
          DownloadChunksFromDocument(u, t, f, lax)

SpecData == Init /\ [][NextData]_vars

\* isolation: several teams of one administrator, each with one document of
\* one chunk, and members that are never removed
NextIsolation ==
    \/ \E u \in Users, pw \in SignupPasswords : Signup(u, pw)
    \/ \E u \in Users, pw \in SignupPasswords : Login(u, pw)
    \/ \E u \in Admins : CreateRepository(u)
    \/ \E u \in Admins, t \in Teams, v \in Users : InviteMember(u, t, v)
    \/ \E u \in Users, t \in Teams :
          ver[t] < FewWrites /\ PeerUploadChunks(u, t, 1, 0, 1)
    \/ \E u \in Users, t \in Teams : EnsureTeamKeyCall(u, t)
    \/ \E u \in Users, t \in Teams, lax \in BOOLEAN :
          DownloadChunksFromDocument(u, t, 1, lax)

SpecIsolation == Init /\ [][NextIsolation]_vars

\* the edge server: one team whose members write chunks in both formats and
\* delete them, and the sync worker of the edge account
NextEdge ==
    \/ \E u \in Users, pw \in SignupPasswords : Signup(u, pw)
    \/ \E u \in Users, pw \in SignupPasswords : Login(u, pw)
    \/ \E u \in Admins : nTeams = 0 /\ CreateRepository(u)
    \/ \E u \in Admins, v \in Users : InviteMember(u, TEAM_ID, v)
    \/ \E u \in Users, f \in Files, i \in Idx :
          PeerUploadTeamKeyChunk(u, TEAM_ID, f, i, 1)
    \/ \E u \in Users : PeerUploadChunks(u, TEAM_ID, NFiles, 0, 1)
    \/ \E u \in Users, f \in Files, i \in Idx :
          DeleteChunkFromDocument(u, TEAM_ID, f, i)
    \/ \E n \in 0..MaxWrites, save_fails \in BOOLEAN :
          BackgroundSyncPass(n, save_fails, FALSE)

SpecEdge == Init /\ [][NextEdge]_vars

\* the edge server and writers that overwrite and delete the chunks it
\* mirrors
NextStore ==
    \/ \E u \in Admins \cup {EdgeUser}, pw \in SignupPasswords :
          Signup(u, pw)
    \/ \E u \in Admins \cup {EdgeUser}, pw \in SignupPasswords :
          Login(u, pw)
    \/ \E u \in Admins : nTeams = 0 /\ CreateRepository(u)
    \/ \E u \in Admins : InviteMember(u, TEAM_ID, EdgeUser)
    \/ \E f \in Files, i \in Idx, p \in Plain :
          PeerUploadTeamKeyChunk(EdgeUser, TEAM_ID, f, i, p)
    \/ \E f \in Files, i \in Idx :
          DeleteChunkFromDocument(EdgeUser, TEAM_ID, f, i)
    \/ \E n \in 0..MaxWrites, save_fails \in BOOLEAN :
          BackgroundSyncPass(n, save_fails, FALSE)

SpecStore == Init /\ [][NextStore]_vars

\* the worker's loop never stops: a pass in which nothing raises is taken
\* again and again
FairStore ==
    SpecStore /\ WF_vars(BackgroundSyncPass(0, FALSE, FALSE))

\* incremental sync: one team, one document whose chunks are written and
\* deleted, and both sync operations
NextSync ==
    \/ \E u \in Users, pw \in SignupPasswords : Signup(u, pw)
    \/ \E u \in Users, pw \in SignupPasswords : Login(u, pw)
    \/ \E u \in Admins : nTeams = 0 /\ CreateRepository(u)
    \/ \E u \in Admins, v \in Users : InviteMember(u, TEAM_ID, v)
    \/ \E u \in Users, i \in Idx : PeerUploadChunks(u, TEAM_ID, 1, i, 1)
    \/ \E u \in Users, i \in Idx : DeleteChunkFromDocument(u, TEAM_ID, 1, i)
    \/ \E u \in Users, v \in SyncVersions :
          SyncTeamChunks(u, TEAM_ID, v, FALSE)
    \/ \E u \in Users, v \in SyncVersions :
          SyncDocumentChunks(u, TEAM_ID, 1, v, FALSE)

SpecSync == Init /\ [][NextSync]_vars

\* readers of a team whose deltas mix chunks under the team key, chunks
\* under a document's DEK and tombstones; lax: the server also answers a
\* caller that is not a MEMBER
NextDelta ==
    \/ \E u \in Users, pw \in SignupPasswords : Signup(u, pw)
    \/ \E u \in Users, pw \in SignupPasswords : Login(u, pw)
    \/ \E u \in Admins : nTeams = 0 /\ CreateRepository(u)
    \/ \E u \in Admins : InviteMember(u, TEAM_ID, EdgeUser)
    \/ \E i \in Idx : PeerUploadTeamKeyChunk(EdgeUser, TEAM_ID, 1, i, 1)
    \/ PeerUploadChunks(EdgeUser, TEAM_ID, NFiles, 0, 1)
    \/ \E f \in Files, i \in Idx :
          DeleteChunkFromDocument(EdgeUser, TEAM_ID, f, i)
    \/ \E u \in Users, v \in SyncVersions, lax \in BOOLEAN :
          SyncTeamChunks(u, TEAM_ID, v, lax)
    \/ \E u \in Users, f \in Files, v \in SyncVersions, lax \in BOOLEAN :
          SyncDocumentChunks(u, TEAM_ID, f, v, lax)

SpecDelta == Init /\ [][NextDelta]_vars

\* the key cache: one team, one document in each chunk format, every
\* operation that needs the team key, and logouts that empty the cache
NextKeys ==
    \/ \E u \in Users, pw \in SignupPasswords : Signup(u, pw)
    \/ \E u \in Users, pw \in SignupPasswords : Login(u, pw)
    \/ \E u \in Users : Logout(u)
    \/ \E u \in Admins : nTeams = 0 /\ CreateRepository(u)
    \/ \E u \in Users, v \in Users : InviteMember(u, TEAM_ID, v)
    \/ \E u \in Users :
          ver[TEAM_ID] < FewWrites /\ PeerUploadChunks(u, TEAM_ID, 1, 0, 1)
    \/ \E u \in Users :
          /\ ver[TEAM_ID] < FewWrites
          /\ PeerUploadTeamKeyChunk(u, TEAM_ID, NFiles, 0, 1)
    \/ \E u \in Users : EnsureTeamKeyCall(u, TEAM_ID)
    \/ \E u \in Users, f \in Files :
          DownloadChunksFromDocument(u, TEAM_ID, f, FALSE)
    \/ \E u \in Users, v \in SyncVersions :
          SyncTeamChunks(u, TEAM_ID, v, FALSE)
    \/ \E u \in Users, f \in Files :
          SyncDocumentChunks(u, TEAM_ID, f, -1, FALSE)
    \/ \E u \in Users : UploadChunksToDocument(u, TEAM_ID, 1, 0, 1)
    \/ \E u \in Users, accepted \in BOOLEAN :
          UploadDocument(u, TEAM_ID, 1, accepted)

SpecKeys == Init /\ [][NextKeys]_vars

\* rotation and uploads: one team whose administrator removes members while
\* the members upload
NextRotation ==
    \/ \E u \in Users, pw \in SignupPasswords : Signup(u, pw)
    \/ \E u \in Users, pw \in SignupPasswords : Login(u, pw)
    \/ \E u \in Admins : nTeams = 0 /\ CreateRepository(u)
    \/ \E u \in Admins, v \in Users : InviteMember(u, TEAM_ID, v)
    \/ \E u \in Admins, v \in Users, a \in BOOLEAN :
          KickMember(u, TEAM_ID, v, a)
    \/ \E u \in Users, f \in Files :
          ver[TEAM_ID] < FewWrites /\ PeerUploadChunks(u, TEAM_ID, f, 0, 1)
    \/ \E u \in Users, f \in Files :
          UploadChunksToDocument(u, TEAM_ID, f, 0, 1)

SpecRotation == Init /\ [][NextRotation]_vars

\* the same with every client able to go on: whatever can be called again
\* is eventually called
FairRotation == SpecRotation /\ WF_vars(NextRotation)

\* ------------------------------------------------- what the server learns
\* The server holds every value of wire and runs the CryptoEngine on it.
ServerPasswords == {x.a : x \in {y \in wire : y.tag = "pw"}}
ServerPrivateKeys ==
    {recoverPrivateKey(x, pw) :
        x \in {y \in wire : y.tag = "encPriv"}, pw \in ServerPasswords} \ {0}
ServerTeamKeysDerived ==
    {unwrapKey(x, priv) :
        x \in {y \in wire : y.tag = "wrap"}, priv \in ServerPrivateKeys} \ {0}
ServerDEKs ==
    {unwrapKeyWithKey(x, k) :
        x \in {y \in wire : y.tag = "kw"}, k \in ServerTeamKeysDerived} \ {0}
ServerPlaintexts ==
    {decrypt(x, k) :
        x \in {y \in wire : y.tag = "ct"},
        k \in ServerTeamKeysDerived \cup ServerDEKs} \ {0}

\* C1: zero trust -- from the values passed to the Transport the server can
\* derive no user's private key, no team key, no DEK and no chunk plaintext.
C1_ZeroTrust ==
    /\ ServerPrivateKeys = {}
    /\ ServerTeamKeysDerived = {}
    /\ ServerDEKs = {}
    /\ ServerPlaintexts = {}

\* C2: revocation totality -- once kick_member(team, target, auto_rotate_keys
\* = True) has returned for a kick the server accepted, no document of the
\* team has an encryptedDEK that unwraps under the pre-kick team key.
C2_RevocationTotality ==
    (last.op = "kick_member" /\ last.ok /\ last.hit) =>
        \A f \in Files :
            docs[last.t][f] # NoBlob =>
                unwrapKeyWithKey(docs[last.t][f], last.key) = 0

\* C3: after a kick with automatic rotation a remaining member that fetches
\* its team key from the server and downloads an existing document with live
\* chunks gets a team key other than the pre-kick one and every chunk
\* decrypted.
C3_RemainingMemberFreshKey ==
    (/\ last.op = "download"
     /\ last.t \in Teams
     /\ last.u \in rot[last.t].remaining
     /\ ~last.hit
     /\ last.msg \notin {"not_found", "no_chunks"}) =>
        /\ last.ok
        /\ last.key # rot[last.t].key

\* C4: a member kicked with automatic rotation (and not invited again) gets
\* no decrypted chunk from download_chunks_from_document, with or without
\* the old team key in its cache.
C4_KickedMemberReadsNothing ==
    (/\ last.op = "download"
     /\ last.t \in Teams
     /\ last.u \in rot[last.t].kicked) =>
        /\ ~last.ok
        /\ last.out = <<>>

\* C5: federated model -- in every reachable state the session of a team's
\* ADMIN holds no decrypted team key of that team, across create_repository,
\* invite_member and kick_member.
C5_AdminHoldsNoTeamKey ==
    \A u \in Users, t \in Teams :
        role[t][u] = "ADMIN" => get_cached_team_key(u, t) = 0

\* C6: role separation -- for an ADMIN without a grant and without a cache
\* entry, get_documents succeeds with the metadata, _ensure_team_key fails
\* and download_chunks_from_document returns no plaintext.
C6_RoleSeparation ==
    (last.t \in Teams /\ role[last.t][last.u] = "ADMIN"
        /\ grant[last.t][last.u] = NoBlob) =>
        /\ last.op = "get_documents" =>
              last.ok /\ last.out = ApiGetDocuments(last.t)
        /\ (last.op = "_ensure_team_key" /\ ~last.hit) =>
              ~last.ok /\ last.raised /\ last.key = 0
              /\ get_cached_team_key(last.u, last.t) = 0
        /\ (last.op = "download" /\ ~last.hit) =>
              ~last.ok /\ last.out = <<>>

\* an ADMIN without a cache entry whose download got as far as the team key
C6_Witness ==
    /\ last.op = "download"
    /\ last.t \in Teams
    /\ role[last.t][last.u] = "ADMIN"
    /\ last.msg = "no_team_key"

\* C7: team isolation -- a user without a role in team B has nothing cached
\* for B, its _ensure_team_key(B) fails and its download on B returns no
\* chunk, whatever its other teams; a MEMBER of B reads every document of B
\* that has live chunks, whoever uploaded them.
C7_TeamIsolation ==
    /\ \A u \in Users, t \in Teams :
          role[t][u] = "NONE" => get_cached_team_key(u, t) = 0
    /\ (last.op \in {"_ensure_team_key", "download"} /\ last.t \in Teams) =>
          /\ role[last.t][last.u] = "NONE" =>
                ~last.ok /\ last.key = 0 /\ last.out = <<>>
          /\ (last.op = "download" /\ role[last.t][last.u] = "MEMBER"
                /\ last.msg \notin {"not_found", "no_chunks"}) =>
                /\ last.ok
                /\ \A n \in DOMAIN last.out : last.out[n].data \in Plain

\* a member of team A only whose download on team B got as far as the key
C7_Witness ==
    /\ last.op = "download"
    /\ last.msg = "no_team_key"
    /\ \E a \in Teams :
          /\ a # last.t
          /\ role[a][last.u] = "MEMBER"
          /\ get_cached_team_key(last.u, a) # 0
          /\ role[last.t][last.u] = "NONE"

\* C8: upload/sync round trip -- a MEMBER's sync_team_chunks returns every
\* live chunk of the delta with the plaintext that was uploaded.
C8_UploadSyncRoundTrip ==
    (/\ last.op = "sync_team_chunks"
     /\ last.t \in Teams
     /\ role[last.t][last.u] = "MEMBER") =>
        /\ last.ok
        /\ \A n \in DOMAIN last.out :
              ~last.out[n].isDeleted =>
                 last.out[n].data =
                    chunks[last.t][last.out[n].documentId]
                          [last.out[n].chunkIndex].blob.a

\* C9: download_chunks_from_document by a MEMBER returns exactly the live
\* chunks of the named document, each with the uploaded plaintext, in
\* ascending chunkIndex; it returns chunks whenever the document has a live
\* one, and nothing when it fails.
C9_DownloadExactSorted ==
    (last.op = "download" /\ last.t \in Teams
        /\ role[last.t][last.u] = "MEMBER") =>
        LET live == {i \in Idx : chunks[last.t][last.f][i].st = "live"}
        IN /\ last.ok <=> (live # {})
           /\ Len(last.out) = Cardinality(live)
           /\ \A n \in DOMAIN last.out :
                 /\ last.out[n].chunkIndex \in live
                 /\ last.out[n].data =
                       chunks[last.t][last.f][last.out[n].chunkIndex].blob.a
                 /\ last.out[n].data \in Plain
                 /\ last.out[n].version =
                       chunks[last.t][last.f][last.out[n].chunkIndex].version
           /\ \A n \in DOMAIN last.out, m \in DOMAIN last.out :
                 n < m => last.out[n].chunkIndex < last.out[m].chunkIndex

\* a download of two chunks that the sync delivered in the other order
C9_Witness ==
    /\ last.op = "download" /\ last.ok
    /\ role[last.t][last.u] = "MEMBER"
    /\ Len(last.out) = 2
    /\ last.out[1].version > last.out[2].version

\* C10: the DEK of a document never changes -- an upload_chunks_to_document
\* to a document that exists encrypts its chunks under the DEK that the
\* stored encryptedDEK unwraps to.
C10_DekNeverChanges ==
    (/\ last.op = "upload"
     /\ last.t \in Teams
     /\ last.out # <<>>
     /\ docs[last.t][last.f] # NoBlob) =>
        \A n \in DOMAIN last.out :
            decrypt(last.out[n].encryptedBlob,
                    unwrapKeyWithKey(docs[last.t][last.f],
                                     get_cached_team_key(last.u, last.t)))
               \in Plain

\* C11: the kick is never rolled back -- a kick_member step in which the
\* server removed a membership returns success, leaves the target without
\* role or grant, and gives no user a role it did not have.
C11_KickNotRolledBack ==
    [][(last'.op = "kick_member" /\ role' # role) =>
          /\ last'.ok
          /\ role'[last'.t][last'.arg] = "NONE"
          /\ grant'[last'.t][last'.arg] = NoBlob
          /\ \A t \in Teams, u \in Users :
                role[t][u] = "NONE" => role'[t][u] = "NONE"]_vars

\* an accepted kick with auto_rotate_keys whose rotation did not happen
C11_Witness ==
    /\ last.op = "kick_member" /\ last.ok /\ last.hit
    /\ last.msg = "no_rotation_info"
    /\ role[last.t][last.arg] = "NONE"
    /\ rot[last.t].remaining # {}

\* C12: every public ServeClient operation returns a (value, message) result
\* in every session state; none ends by raising to the caller
\* (_ensure_team_key is the one private operation recorded in last).
C12_ExplicitOutcome ==
    last.op # "_ensure_team_key" => ~last.raised

\* C13: a session that is not logged in (after logout, until the next
\* successful login) holds no token, no private key and no cached team key,
\* and an operation that needs a team key then fails as not authenticated:
\* it raises, returns no key or data and makes no get_team_key call.
C13_LogoutDiscardsSession ==
    /\ \A u \in Users :
          ~is_authenticated(u) => session[u] = NoSession /\ team_keys[u] = NoKeys
    /\ (/\ last.op \in {"_ensure_team_key", "download"}
        /\ ~is_authenticated(last.u))
          => last.raised /\ ~last.ok /\ last.key = 0 /\ last.arg = 0
                /\ last.out = <<>>

\* the creator of a team, logged out, asks for the team key it had cached
C13_Witness ==
    /\ last.op = "_ensure_team_key" /\ last.raised /\ last.arg = 0
    /\ role[last.t][last.u] = "ADMIN"
    /\ ~is_authenticated(last.u)
    /\ session[last.u] = NoSession /\ team_keys[last.u] = NoKeys

\* C14: password reset re-wraps the private key -- every login the server
\* accepts (in particular with a password set by reset_password) succeeds
\* and leaves in the session the private key that signup generated.
C14_ResetRewrapsPrivateKey ==
    (last.op = "login" /\ last.msg # "rejected")
        => last.ok /\ session[last.u] = [auth |-> TRUE, priv |-> last.u]

\* C15: the edge sync worker moves last_sync_version, and writes it to
\* sync_version.txt, only in a pass that got through every entry of the
\* batch, and then to the maximum version of the batch; a pass in which
\* applying an entry failed leaves both unchanged, and the next pass that
\* syncs requests the same lastVersion again.
C15_WatermarkAfterWholeBatch ==
    [][/\ (edge'.last_sync_version # edge.last_sync_version
            \/ edge'.file # edge.file)
          => /\ last'.op = "worker" /\ ~edge'.failed
             /\ edge'.done = edge'.size /\ edge'.size = Len(last'.out)
             /\ edge'.last_sync_version =
                   MaxVersion(last'.out, edge.last_sync_version)
             /\ edge'.last_sync_version > edge.last_sync_version
             /\ edge'.file \in {edge.file, edge'.last_sync_version}
       /\ (last'.op = "worker" /\ last'.u = EdgeUser /\ edge'.failed)
          => /\ edge'.last_sync_version = edge.last_sync_version
             /\ edge'.file = edge.file
       /\ (last'.op = "worker" /\ last'.u = EdgeUser /\ edge.failed)
          => /\ last'.arg = edge.requested
             /\ edge'.requested = edge.requested]_vars

\* a pass that applied the first entry of a batch and failed on a later one
C15_Witness ==
    /\ last.op = "worker" /\ edge.failed
    /\ edge.done > 0 /\ edge.size > edge.done
    /\ last.out[1].version > edge.last_sync_version
    /\ edge.requested = edge.last_sync_version

\* C16: tombstones in sync -- when an authenticated member calls
\* sync_team_chunks or sync_document_chunks and the server answers, every
\* deleted row newer than the requested version appears in the result with
\* isDeleted = true, its version and no data (data = None, written -1).
C16_TombstonesInSync ==
    (/\ last.op \in {"sync_team_chunks", "sync_document_chunks"}
     /\ ~last.raised
     /\ role[last.t][last.u] = "MEMBER")
    => LET delta == ApiSyncTeamChunks(last.t, last.arg)
       IN \A n \in DOMAIN delta :
            (/\ delta[n].isDeleted
             /\ last.op = "sync_document_chunks"
                   => delta[n].documentId = last.f)
            => \E k \in DOMAIN last.out :
                  /\ last.out[k].chunkIndex = delta[n].chunkIndex
                  /\ last.out[k].version = delta[n].version
                  /\ last.out[k].isDeleted
                  /\ last.out[k].data = -1

C18_FailedLoadChangesNothing ==
    [][(/\ \/ last'.op = "_ensure_team_key" /\ last'.raised
           \/ last'.op = "download" /\ last'.msg = "no_team_key"
        /\ is_authenticated(last'.u))
          => /\ last'.op = "_ensure_team_key" => last'.arg = 1
             /\ ~last'.ok /\ last'.key = 0 /\ ~last'.hit
             /\ team_keys' = team_keys
             /\ get_cached_team_key(last'.u, last'.t) = 0]_vars

\* a member of one team, holding that team's key, refused the key of another
C18_Witness ==
    /\ last.op = "_ensure_team_key" /\ last.raised /\ last.arg = 1
    /\ is_authenticated(last.u)
    /\ get_cached_team_key(last.u, last.t) = 0
    /\ \E a \in Teams : a # last.t /\ get_cached_team_key(last.u, a) # 0

\* C19: when the server accepts a kick for which rotation is required and
\* members remain, kick_member with auto_rotate_keys receives the flag and
\* the remaining members and goes on to issue a new key: it ends in
\* "rotated" or, when rotate_team_keys fails, in "rotation_failed".
C19_KickProceedsToNewKey ==
    (/\ last.op = "kick_member" /\ last.ok /\ last.hit
     /\ rot[last.t].remaining # {})
        => last.msg \in {"rotated", "rotation_failed"}

\* C20: rotation interleaved with uploads -- once a kick_member with
\* auto_rotate_keys has returned success, no document of the team has its
\* DEK wrapped under the team key in force before the kick, and a remaining
\* member's upload_chunks_to_document wraps its DEK under another key.
C20_NoDekUnderOldKey ==
    \A t \in Teams :
       rot[t].key # 0 =>
          /\ \A f \in Files : docs[t][f].tag = "kw" => docs[t][f].b # rot[t].key
          /\ (/\ last.op = "upload" /\ last.msg = "TypeError" /\ last.t = t
              /\ last.u \in rot[t].remaining)
                => get_cached_team_key(last.u, t) # rot[t].key

\* C21: after a rotation (a kick_member with auto_rotate_keys that the
\* server accepted), the next _ensure_team_key of every remaining member
\* returns the new team key and not the one in force before the kick,
\* whether the member had the old key in its cache or not.
C21_RemainingMemberGetsNewKey ==
    (/\ last.op = "_ensure_team_key" /\ last.ok
     /\ last.u \in rot[last.t].remaining)
        => last.key # rot[last.t].key

\* C22: rotation for a team is serialized -- after two kick_member
\* rotations of one team have both finished, every remaining member's
\* wrapped team key and every document's DEK wrapper are under one and the
\* same team key, the key issued by the rotation that committed last (so
\* not the key that was in force before the last kick).
C22_RotationsSerialized ==
    \A t \in Teams :
       (Cardinality(rot[t].kicked) >= 2 /\ last.op = "kick_member") =>
          \E k \in 1..MaxKeys :
             /\ k # rot[t].key
             /\ \A m \in Users : role[t][m] = "MEMBER" => grant[t][m].a = k
             /\ \A f \in Files : docs[t][f].tag = "kw" => docs[t][f].b = k

\* C23: a rotation that meets a conflict is restarted, never given up --
\* kick_member with auto_rotate_keys, accepted for a team with remaining
\* members, does not return with the old team key still in force: no
\* remaining member's row on the server still wraps the pre-kick key.
C23_RotationRestartedOnConflict ==
    (/\ last.op = "kick_member" /\ last.ok /\ last.hit
     /\ rot[last.t].remaining # {})
        => \A m \in rot[last.t].remaining :
              unwrapKey(grant[last.t][m], m) # last.key

\* C24: resumable rotation -- after a kick_member with auto_rotate_keys was
\* accepted, the re-wrapping of the documents is eventually completed by
\* running it again: a state is reached in which no document's DEK wrapper
\* unwraps under the pre-kick team key any more.
C24_RotationResumable ==
    [](rot[TEAM_ID].key # 0
         => <>(\A f \in Files :
                 docs[TEAM_ID][f].tag = "kw"
                    => unwrapKeyWithKey(docs[TEAM_ID][f], rot[TEAM_ID].key) = 0))

\* C25: partial failure is reported -- when kick_member with
\* auto_rotate_keys returns success for an accepted kick and documents of
\* the team were not re-wrapped (their DEK wrapper is still the one that
\* unwraps under the pre-kick key), its result lists the ids of those
\* documents.
C25_PartialFailureReported ==
    (last.op = "kick_member" /\ last.ok /\ last.hit)
        => {f \in Files : unwrapKeyWithKey(docs[last.t][f], last.key) # 0}
              \subseteq last.skipped

\* C26: in DocumentsReencrypting a document that cannot be unwrapped does
\* not stop the others -- after kick_member with auto_rotate_keys returned
\* success for an accepted kick with remaining members, the rotation is
\* done ("rotated") and every document whose encryptedDEK unwrapped under
\* the pre-kick key has been re-wrapped, so none unwraps under it any more.
C26_UnwrappableDocsRewrapped ==
    (/\ last.op = "kick_member" /\ last.ok /\ last.hit
     /\ rot[last.t].remaining # {})
        => /\ last.msg = "rotated"
           /\ \A f \in Files :
                 docs[last.t][f].tag = "kw"
                    => /\ unwrapKeyWithKey(docs[last.t][f], last.key) = 0
                       /\ docs[last.t][f].b =
                             get_cached_team_key(last.u, last.t)

\* C27: MembersRewrapped completeness -- the list an accepted kick_member
\* with auto_rotate_keys submits to rotate_team_keys has exactly one entry
\* per remaining member returned by the kick, every entry wraps one and the
\* same newly generated team key under that member's public key, and there
\* is no entry for the kicked member.
C27_MemberKeysComplete ==
    (/\ last.op = "kick_member" /\ last.ok /\ last.hit
     /\ rot[last.t].remaining # {})
        => /\ Len(last.out) = Cardinality(rot[last.t].remaining)
           /\ {last.out[n].userId : n \in DOMAIN last.out}
                 = rot[last.t].remaining
           /\ \A n \in DOMAIN last.out : last.out[n].userId # last.arg
           /\ \E k \in 1..MaxKeys :
                 /\ k # last.key
                 /\ \A n \in DOMAIN last.out :
                       last.out[n].encryptedTeamKey =
                          wrapKey(k, last.out[n].userId)

C31_ManualRotationReported ==
    (/\ last.op = "kick_member" /\ last.ok /\ ~last.hit)
        => last.msg = "manual"

\* C32: invite_member wraps the team's current key for the invitee -- a
\* member invited after a kick with auto_rotate_keys on the team unwraps
\* the key it was given, that key unwraps the DEK of every document of the
\* team and the DEK decrypts every live chunk; an invitation by a session
\* whose load of the team key failed sends nothing to the server.
C32_InviteeReadsAllDocuments ==
    [][last'.op = "invite_member" =>
          /\ last'.msg = "no_team_key" =>
                wire' = wire /\ grant' = grant /\ role' = role
          /\ (last'.ok /\ rot'[last'.t].key # 0) =>
                LET t == last'.t
                    team_key == unwrapKey(grant'[t][last'.arg], last'.arg)
                IN /\ team_key # 0
                   /\ team_key = last'.key
                   /\ \A f \in Files : docs'[t][f] # NoBlob =>
                         LET dek == unwrapKeyWithKey(docs'[t][f], team_key)
                         IN /\ dek # 0
                            /\ \A i \in Idx :
                                  chunks'[t][f][i].st = "live" =>
                                     decrypt(chunks'[t][f][i].blob, dek)
                                        \in Plain]_vars

\* a member invited after an accepted kick with auto_rotate_keys, in a team
\* that holds a document with a live chunk
C32_Witness ==
    /\ last.op = "invite_member" /\ last.ok
    /\ rot[last.t].key # 0
    /\ unwrapKey(grant[last.t][last.arg], last.arg) = last.key
    /\ \E f \in Files, i \in Idx :
          /\ docs[last.t][f] # NoBlob
          /\ chunks[last.t][f][i].st = "live"

\* C33: the identity is set atomically -- whenever a call has returned, the
\* session holds either no identity field at all or the access token, user
\* id, email, private key and public key of one and the same account; after
\* a successful login that account is the one that logged in, and after a
\* login whose private-key recovery failed the session is fully cleared.
C33_IdentityAtomic ==
    /\ \/ shared = NoIdentity
       \/ /\ shared.access_token \in Users
          /\ shared.user_id = shared.access_token
          /\ shared.email = shared.access_token
          /\ shared.private_key = shared.access_token
          /\ shared.public_key = shared.access_token
    /\ (last.op = "shared.login" /\ last.ok) => shared.access_token = last.u
    /\ (last.op = "shared.login" /\ last.msg = "recover_failed")
          => shared = NoIdentity

\* a login the server accepted whose private key was not recovered, on a
\* client that held the identity of another account
C33_Witness ==
    /\ last.op = "shared.login" /\ last.msg = "recover_failed"
    /\ last.arg \in Users /\ last.arg # last.u
    /\ shared = NoIdentity

\* C34: starting with no persisted watermark, the edge worker eventually
\* applies every live chunk of its team to the local store, the chunk the
\* server stored with version 0 included -- once the edge account is logged
\* in and a member of the team, a state is reached in which the text of
\* every live chunk of the team is in the store.
C34_WorkerAppliesEveryLiveChunk ==
    (/\ is_authenticated(EdgeUser)
     /\ role[TEAM_ID][EdgeUser] = "MEMBER")
    ~> (\A f \in Files, i \in Idx :
          chunks[TEAM_ID][f][i].st = "live" =>
             decrypt(chunks[TEAM_ID][f][i].blob,
                     unwrapKey(grant[TEAM_ID][EdgeUser], EdgeUser))
                \in edge.store[f][i].contents)

\* C35: uploads and syncs of one team interleave safely -- for the consumer
\* that syncs with its watermark and advances it to the maximum version
\* seen, no chunk is skipped by the watermark: a live chunk of the team
\* whose version the watermark has reached or passed was returned to the
\* consumer (its text is in the consumer's store); every other live chunk
\* is still ahead of the watermark and is returned by a later sync.
C35_NoChunkSkippedByWatermark ==
    (/\ is_authenticated(EdgeUser)
     /\ role[TEAM_ID][EdgeUser] = "MEMBER")
    => \A f \in Files, i \in Idx :
          (/\ chunks[TEAM_ID][f][i].st = "live"
           /\ chunks[TEAM_ID][f][i].version <= edge.last_sync_version)
          => \E p \in edge.store[f][i].contents :
                chunks[TEAM_ID][f][i].blob.a = p

\* C36: the sync consumer applies tombstones -- after a pass of the edge
\* worker that got through a batch with an isDeleted entry for a chunk, the
\* local store holds no entry for that chunk.
C36_WorkerAppliesTombstones ==
    (last.op = "worker" /\ last.u = EdgeUser /\ ~edge.failed)
    => \A n \in DOMAIN last.out :
          last.out[n].isDeleted
          => edge.store[last.out[n].documentId][last.out[n].chunkIndex].n = 0

C39_SyncAllOrNothing ==
    (last.op \in {"sync_team_chunks", "sync_document_chunks"}
     /\ ~last.raised)
    => LET delta == IF last.op = "sync_team_chunks"
                    THEN ApiSyncTeamChunks(last.t, last.arg)
                    ELSE ApiSyncDocumentChunks(last.t, last.f, last.arg)
       IN /\ ~last.ok => last.out = <<>>
          /\ (\E n \in DOMAIN delta :
                 /\ ~delta[n].isDeleted
                 /\ decrypt(delta[n].encryptedBlob, last.key) = 0)
             => ~last.ok
          /\ last.ok =>
                /\ Len(last.out) = Len(delta)
                /\ \A n \in DOMAIN delta :
                      /\ last.out[n].chunkIndex = delta[n].chunkIndex
                      /\ last.out[n].version = delta[n].version
                      /\ last.out[n].isDeleted = delta[n].isDeleted
                      /\ last.op = "sync_team_chunks"
                            => last.out[n].documentId = delta[n].documentId
                      /\ last.out[n].data =
                            IF delta[n].isDeleted THEN -1
                            ELSE decrypt(delta[n].encryptedBlob, last.key)
                      /\ last.out[n].data # 0

\* a sync that failed on one live chunk of a delta in which another live
\* chunk decrypts under the caller's team key
C39_Witness ==
    /\ last.op = "sync_team_chunks" /\ ~last.ok /\ last.msg = "decrypt"
    /\ last.out = <<>>
    /\ LET delta == ApiSyncTeamChunks(last.t, last.arg)
       IN /\ \E n \in DOMAIN delta :
                ~delta[n].isDeleted
                /\ decrypt(delta[n].encryptedBlob, last.key) \in Plain
          /\ \E n \in DOMAIN delta :
                ~delta[n].isDeleted
                /\ decrypt(delta[n].encryptedBlob, last.key) = 0

\* C40: after any sequence of passes of the edge worker, with chunks
\* delivered again at a higher version and batches fetched again after an
\* apply that failed part-way, the local store holds at most one entry per
\* (documentId, chunkIndex), and that entry carries the text of the highest
\* version applied.
C40_OneEntryPerChunk ==
    \A f \in Files, i \in Idx :
        /\ edge.store[f][i].n <= 1
        /\ (/\ chunks[TEAM_ID][f][i].st = "live"
            /\ chunks[TEAM_ID][f][i].version <= edge.last_sync_version
            /\ edge.store[f][i].n > 0)
           => edge.store[f][i].contents = {chunks[TEAM_ID][f][i].blob.a}

====
